---- MODULE Spec2Model ----
(***************************************************************************)
(* Model of the full-text search and indexing subsystem of web-obsidian:   *)
(* the MarkdownIndexer (app/search/indexer.py), the search endpoints and   *)
(* query builder (app/search/api.py), the file API that writes through to  *)
(* the indexes (app/api/files.py, app/search_service.py) and the bulk      *)
(* reindex started from the application lifespan (app/main.py).            *)
(*                                                                         *)
(* Text is a sequence of one-character strings.  The embedded index        *)
(* library is modelled by its documented behaviour: a writer whose         *)
(* update_document replaces the committed record with the same unique      *)
(* path, whose delete_by_term removes the committed records, a             *)
(* doc_count_all that counts deleted documents until their segments are    *)
(* merged, and a searcher that returns the matching records by descending  *)
(* score, ties by document number.                                         *)
(***************************************************************************)
EXTENDS Naturals, Sequences, FiniteSets, TLC

VARIABLES
    index,      \* the shared Whoosh index: records in document-number order
    clock,      \* wall clock (UTC instant) read by datetime.now()
    last,       \* the last request handled and what it returned
    vault,      \* file store: vault[tenant][path] is a file or NoFile
    userIndex,  \* SearchService's per-user index: userIndex[tenant] is a set of paths
    lock,       \* holder of data/whoosh/.index.lock, or NoWorker
    wpc,        \* wpc[w]: where worker w is in its lifespan
    scan,       \* scan[w]: the state of worker w's auto_index_all_files task
    dead,       \* number of deleted documents that the index's segments still hold
    wlock,      \* holder of the index's write lock (an open writer), or NoWorker
    wop,        \* wop[w]: the indexer write that worker w has in progress
    upserted    \* history: paths upserted with success and not deleted or cleared since

vars == <<index, clock, last, vault, userIndex, lock, wpc, scan, dead, wlock, wop, upserted>>

-----------------------------------------------------------------------------
(* Bounds of the model *)

MaxClock == 1
MaxLimit == 2
MaxOffset == 2
MaxBatch == 2
MaxDead == 1
MaxBadDirs == 1

\* SearchRequest.limit is validated to 1..LimitCap
LimitCap == 1000

Paths == {"notes/a.md", "b.md"}
Tenants == {1, 2}
Workers == {"w1", "w2"}
NoWorker == "none"

-----------------------------------------------------------------------------
(* Text *)

T_ab == <<"a", "b">>
T_abc == <<"a", "b", "c">>
T_Ab_ab == <<"A", "b", " ", "a", "b">>
T_empty == <<>>
T_tag == <<"#", "a", "b", " ", "#", "A", "b", " ", "#">>

Contents == {T_ab, T_abc, T_Ab_ab}

Min(a, b) == IF a <= b THEN a ELSE b

LowerChar(c) == IF c = "A" THEN "a" ELSE IF c = "B" THEN "b" ELSE IF c = "C" THEN "c" ELSE c

\* str.lower()
Lower(s) == [i \in 1..Len(s) |-> LowerChar(s[i])]

\* str.split(): the maximal runs of non-blank characters
RECURSIVE SplitFrom(_, _, _, _)
SplitFrom(s, i, cur, acc) ==
    IF i > Len(s)
    THEN IF cur = <<>> THEN acc ELSE Append(acc, cur)
    ELSE IF s[i] = " "
         THEN SplitFrom(s, i + 1, <<>>, IF cur = <<>> THEN acc ELSE Append(acc, cur))
         ELSE SplitFrom(s, i + 1, Append(cur, s[i]), acc)

Split(s) == SplitFrom(s, 1, <<>>, <<>>)

\* the content field's analyzer: tokenize and lowercase
Analyze(s) == LET w == Split(s) IN [i \in 1..Len(w) |-> Lower(w[i])]

\* the tri field: NGRAM(minsize=3, maxsize=3), lowercased 3-grams of the text
Trigrams(s) == { Lower(SubSeq(s, i, i + 2)) : i \in 1..(IF Len(s) >= 3 THEN Len(s) - 2 ELSE 0) }

-----------------------------------------------------------------------------
(* Regular expressions: literals, escapes, '.', '?', '*', '|' and a        *)
(* leading '^', matched as re.search does.                                  *)

RECURSIVE TokensFrom(_, _)
TokensFrom(p, i) ==
    IF i > Len(p) THEN <<>>
    ELSE LET c == p[i] IN
         IF c = "\\" /\ i + 1 <= Len(p)
         THEN <<[kind |-> "lit", ch |-> p[i + 1]]>> \o TokensFrom(p, i + 2)
         ELSE <<[kind |-> CASE c = "." -> "any"
                            [] c = "?" -> "opt"
                            [] c = "*" -> "star"
                            [] c = "|" -> "bar"
                            [] c = "^" -> "bol"
                            [] OTHER -> "lit",
                  ch |-> c]>> \o TokensFrom(p, i + 1)

RECURSIVE MatchSeq(_, _, _, _, _)
MatchSeq(toks, i, txt, j, ci) ==
    IF i > Len(toks) \/ toks[i].kind = "bar" THEN TRUE
    ELSE LET t == toks[i]
             q == IF i + 1 <= Len(toks) /\ toks[i + 1].kind \in {"opt", "star"}
                  THEN toks[i + 1].kind ELSE "one"
             hit == /\ j <= Len(txt)
                    /\ \/ t.kind = "any"
                       \/ /\ t.kind = "lit"
                          /\ IF ci THEN LowerChar(t.ch) = LowerChar(txt[j])
                                   ELSE t.ch = txt[j]
         IN IF t.kind = "bol" THEN j = 1 /\ MatchSeq(toks, i + 1, txt, j, ci)
            ELSE CASE q = "one" -> hit /\ MatchSeq(toks, i + 1, txt, j + 1, ci)
                   [] q = "opt" -> \/ hit /\ MatchSeq(toks, i + 2, txt, j + 1, ci)
                                   \/ MatchSeq(toks, i + 2, txt, j, ci)
                   [] q = "star" -> \/ hit /\ MatchSeq(toks, i, txt, j + 1, ci)
                                    \/ MatchSeq(toks, i + 2, txt, j, ci)

\* re.search(pattern, txt, flags); flags is the set of re flags that are on
RegexSearch(p, flags, txt) ==
    LET toks == TokensFrom(p, 1)
        starts == {1} \cup { i + 1 : i \in { k \in 1..Len(toks) : toks[k].kind = "bar" } }
        ci == "IGNORECASE" \in flags
    IN \E a \in starts : \E j \in 1..(Len(txt) + 1) : MatchSeq(toks, a, txt, j, ci)

-----------------------------------------------------------------------------
(* Index records and the writer (app/search/indexer.py) *)

\* Path(path).name
PathName(path) ==
    IF path = "notes/a.md" THEN "a.md"
    ELSE IF path = "notes/Welcome.md" THEN "Welcome.md"
    ELSE path

RECURSIVE Join(_, _)
\* sep.join(parts)
Join(sep, parts) ==
    IF parts = <<>> THEN <<>>
    ELSE IF Len(parts) = 1 THEN parts[1]
    ELSE parts[1] \o <<sep>> \o Join(sep, Tail(parts))

None == "None"

\* f"{k}={v}" for k, v in props.items() if v is not None
PropItems(props) ==
    LET kept == SelectSeq(props, LAMBDA kv : kv.v # None)
    IN [i \in 1..Len(kept) |-> <<kept[i].k, "=", kept[i].v>>]

\* tags_str: ",".join(tags) if tags else ""
TagsStr(tags) == IF tags # <<>> THEN Join(",", tags) ELSE <<>>

\* props_str
PropsStr(props) == Join(",", PropItems(props))

\* mtime or datetime.now(): now() is a naive datetime, the wall clock reading
NoMtime == [some |-> FALSE, t |-> 0, aware |-> FALSE]
AwareMtime(t) == [some |-> TRUE, t |-> t, aware |-> TRUE]
MtimeOrNow(mtime, now) ==
    IF mtime.some THEN [t |-> mtime.t, aware |-> mtime.aware]
    ELSE [t |-> now, aware |-> FALSE]

\* the fields passed to writer.update_document, with what the schema's analyzers
\* index of them: the terms of content (StemmingAnalyzer) and the 3-grams of tri
DocFields(path, content, name, tags, props, mtime, now) ==
    [path |-> path, name |-> name, tags |-> TagsStr(tags), props |-> PropsStr(props),
     content |-> content, terms |-> Analyze(content), tri |-> Trigrams(content),
     mtime |-> MtimeOrNow(mtime, now), size |-> Len(content)]

PathsOf(ix) == { ix[i].path : i \in 1..Len(ix) }
HasPath(ix, path) == path \in PathsOf(ix)
CountPath(ix, path) == Cardinality({ i \in 1..Len(ix) : ix[i].path = path })

\* ix.writer() / AsyncWriter(ix): a writer on the committed records; it collects
\* the documents it adds and counts the committed documents it deletes
open_writer(ix) == [base |-> ix, added |-> <<>>, removed |-> 0]

\* a delete that removes nothing
delete_by_term_none(w, path) == w

\* writer.delete_by_term("path", path): deletes the committed documents with the path
delete_by_term(w, path) ==
    [w EXCEPT !.base = SelectSeq(w.base, LAMBDA r : r.path # path),
              !.removed = @ + CountPath(w.base, path)]

\* writer.update_document: path is ID(unique=True); the committed document with
\* the same path is deleted and the new one is added.  A document added earlier
\* through the same writer is not committed yet and is not replaced.
update_document(w, rec) == [delete_by_term(w, rec.path) EXCEPT !.added = Append(@, rec)]

\* writer.commit(): the surviving documents, then the added ones in order
commit(w) == w.base \o w.added

\* MarkdownIndexer.upsert_document: fails = an exception in the try block
upsert_document(ix, path, content, name, tags, props, mtime, now, fails) ==
    IF fails THEN [ok |-> FALSE, ix |-> ix, removed |-> 0]
    ELSE LET w == update_document(open_writer(ix),
                                  DocFields(path, content, name, tags, props, mtime, now))
         IN [ok |-> TRUE, ix |-> commit(w), removed |-> w.removed]

\* MarkdownIndexer.delete_document
delete_document(ix, path, fails) ==
    IF fails THEN [ok |-> FALSE, ix |-> ix, removed |-> 0]
    ELSE LET w == delete_by_term(open_writer(ix), path)
         IN [ok |-> TRUE, ix |-> commit(w), removed |-> w.removed]

\* MarkdownIndexer.clear_index: a commit with mergetype CLEAR
clear_index(ix, fails) ==
    IF fails THEN [ok |-> FALSE, ix |-> ix] ELSE [ok |-> TRUE, ix |-> <<>>]

\* MarkdownIndexer.optimize: commit(optimize=True) merges segments, records stay
optimize(ix, fails) ==
    IF fails THEN [ok |-> FALSE, ix |-> ix] ELSE [ok |-> TRUE, ix |-> ix]

\* MarkdownIndexer.get_stats: doc_count is searcher.doc_count_all(), the number
\* of documents in the segments, deleted or not
doc_count(ix, deleted) == Len(ix) + deleted

RECURSIVE BatchApply_abort(_, _, _, _)
\* a loop that stops at the first document whose update raises
BatchApply_abort(w, docs, now, count) ==
    IF docs = <<>> THEN [w |-> w, count |-> count]
    ELSE LET d == Head(docs) IN
         IF d.bad THEN [w |-> w, count |-> count]
         ELSE BatchApply_abort(
                update_document(w, DocFields(d.path, d.content, d.name, d.tags, d.props,
                                             NoMtime, now)),
                Tail(docs), now, count + 1)

RECURSIVE BatchApply(_, _, _, _)
\* the loop of batch_upsert: a document whose update raises is logged and skipped
BatchApply(w, docs, now, count) ==
    IF docs = <<>> THEN [w |-> w, count |-> count]
    ELSE LET d == Head(docs) IN
         IF d.bad THEN BatchApply(w, Tail(docs), now, count)
         ELSE BatchApply(
                update_document(w, DocFields(d.path, d.content, d.name, d.tags, d.props,
                                             NoMtime, now)),
                Tail(docs), now, count + 1)

\* a batch whose failed commit leaves the queued documents in the index
batch_upsert_partial(ix, docs, now, mode) ==
    IF mode = "open"
    THEN [count |-> 0, ix |-> ix, committed |-> FALSE, removed |-> 0, cancelled |-> FALSE]
    ELSE LET r == BatchApply(open_writer(ix), docs, now, 0) IN
         [count |-> r.count, ix |-> commit(r.w), committed |-> mode # "commit",
          removed |-> r.w.removed, cancelled |-> FALSE]

\* MarkdownIndexer.batch_upsert: mode "open" = AsyncWriter(...) raises and there
\* is no writer, "commit" = writer.commit() raises and the writer is cancelled
batch_upsert(ix, docs, now, mode) ==
    IF mode = "open"
    THEN [count |-> 0, ix |-> ix, committed |-> FALSE, removed |-> 0, cancelled |-> FALSE]
    ELSE LET r == BatchApply(open_writer(ix), docs, now, 0) IN
         IF mode = "commit"
         THEN [count |-> r.count, ix |-> ix, committed |-> FALSE, removed |-> 0,
               cancelled |-> TRUE]
         ELSE [count |-> r.count, ix |-> commit(r.w), committed |-> TRUE,
               removed |-> r.w.removed, cancelled |-> FALSE]

-----------------------------------------------------------------------------
(* Query builder and search endpoint (app/search/api.py) *)

\* the characters extract_regex_prefix stops at: r'.*+?[]{}()|\^$'
MetaChars == {".", "*", "+", "?", "[", "]", "{", "}", "(", ")", "|", "\\", "^", "$"}

RECURSIVE PrefixFrom(_, _, _)
\* the while loop of extract_regex_prefix (i is 1-based)
PrefixFrom(pattern, i, prefix) ==
    IF i > Len(pattern) THEN prefix
    ELSE LET c == pattern[i] IN
         IF c \in MetaChars THEN prefix
         ELSE IF c = "\\" /\ i + 1 <= Len(pattern)
              THEN PrefixFrom(pattern, i + 2, Append(prefix, pattern[i + 1]))
              ELSE PrefixFrom(pattern, i + 1, Append(prefix, c))

extract_regex_prefix(pattern) == PrefixFrom(pattern, 1, <<>>)

\* the prefix length from which the trigram clause is added
MinPrefixLen == 3

\* whoosh.query objects
QEvery == [kind |-> "Every", chars |-> <<>>, words |-> <<>>, flags |-> {}, subs |-> <<>>]
QNull == [QEvery EXCEPT !.kind = "Null"]
QTerm(field, text) == [QEvery EXCEPT !.kind = field, !.chars = text]
QPhrase(words) == [QEvery EXCEPT !.kind = "Phrase", !.words = words]
QRegex(pattern, flags) == [QEvery EXCEPT !.kind = "Regex", !.chars = pattern, !.flags = flags]
QAnd(subs) == [QEvery EXCEPT !.kind = "And", !.subs = subs]

\* QueryParser("content", schema).parse(value): the analyzed words, all required
ParseWord(value) ==
    LET w == Analyze(value) IN
    IF Len(w) = 0 THEN QNull
    ELSE IF Len(w) = 1 THEN QTerm("content", w[1])
    ELSE QAnd([i \in 1..Len(w) |-> QTerm("content", w[i])])

\* the trigram prefilter clause of a regex term, if any
PrefilterClauses(pattern) ==
    LET prefix == extract_regex_prefix(pattern) IN
    IF Len(prefix) >= MinPrefixLen
    THEN <<QTerm("tri", Lower(SubSeq(prefix, 1, 3)))>>
    ELSE <<>>

\* re_flags of a regex term
ReFlags(flags) ==
    (IF \E k \in 1..Len(flags) : flags[k] = "i" THEN {"IGNORECASE"} ELSE {})
    \cup (IF \E k \in 1..Len(flags) : flags[k] = "m" THEN {"MULTILINE"} ELSE {})

\* the clauses of a regex term: rejects = Regex(...) raises and is only logged
RegexClauses(term, rejects) ==
    PrefilterClauses(term.value)
    \o (IF rejects THEN <<>> ELSE <<QRegex(term.value, ReFlags(term.flags))>>)

\* the same term compiled with the prefilter optimization disabled
RegexClausesPlain(term, rejects) ==
    IF rejects THEN <<>> ELSE <<QRegex(term.value, ReFlags(term.flags))>>

\* a combination that matches nothing when there is no clause
Combine_null(clauses) ==
    IF Len(clauses) = 0 THEN QNull
    ELSE IF Len(clauses) = 1 THEN clauses[1]
    ELSE QAnd(clauses)

\* Combine with AND
Combine(clauses) ==
    IF Len(clauses) = 0 THEN QEvery
    ELSE IF Len(clauses) = 1 THEN clauses[1]
    ELSE QAnd(clauses)

\* the clauses of a term that is not a line term
PlainClauses(term, rejects) ==
    CASE term.type = "word" -> <<ParseWord(term.value)>>
      [] term.type = "phrase" -> <<QPhrase(Split(term.value))>>
      [] term.type = "regex" -> RegexClauses(term, rejects)
      [] OTHER -> <<>>

\* a line term: build_whoosh_query([sub_term]) is used as the clause
TermClauses(term, rejects) ==
    IF term.type = "line"
    THEN IF term.sub # <<>>
         THEN IF term.sub[1].type = "line" THEN <<QEvery>>
              ELSE <<Combine(PlainClauses(term.sub[1], rejects))>>
         ELSE <<>>
    ELSE PlainClauses(term, rejects)

RECURSIVE ClausesOf(_, _)
ClausesOf(terms, rejects) ==
    IF terms = <<>> THEN <<>>
    ELSE TermClauses(Head(terms), rejects) \o ClausesOf(Tail(terms), rejects)

build_whoosh_query(terms, rejects) ==
    IF terms = <<>> THEN QEvery ELSE Combine(ClausesOf(terms, rejects))

\* is the word sequence ws found at adjacent positions of the tokens toks
PhraseIn(ws, toks) ==
    /\ Len(ws) > 0
    /\ \E i \in 1..Len(toks) :
          /\ i + Len(ws) - 1 <= Len(toks)
          /\ \A k \in 1..Len(ws) : toks[i + k - 1] = ws[k]

RECURSIVE Matches(_, _)
\* does the record satisfy the query
Matches(q, rec) ==
    CASE q.kind = "Every" -> TRUE
      [] q.kind = "Null" -> FALSE
      [] q.kind = "content" -> \E i \in 1..Len(rec.terms) : rec.terms[i] = q.chars
      [] q.kind = "tri" -> q.chars \in rec.tri
      [] q.kind = "Phrase" -> PhraseIn(q.words, rec.terms)
      [] q.kind = "Regex" -> RegexSearch(q.chars, q.flags, rec.content)
      [] q.kind = "And" -> \A i \in 1..Len(q.subs) : Matches(q.subs[i], rec)

RECURSIVE Score(_, _)
\* scoring: the term frequency of the query's content words, 1 for any other clause
Score(q, rec) ==
    CASE q.kind = "content" ->
            Cardinality({ i \in 1..Len(rec.terms) : rec.terms[i] = q.chars })
      [] q.kind = "And" ->
            IF Len(q.subs) = 0 THEN 0
            ELSE Score(q.subs[1], rec) + Score(QAnd(Tail(q.subs)), rec)
      [] OTHER -> 1

NoFilter == [on |-> FALSE, paths |-> {}]

\* a search that drops the path filter
PathFilter_none(restrict) == NoFilter

\* a search that filters whenever restrict_paths is given, an empty list too
PathFilter_given(restrict) ==
    IF restrict.some
    THEN [on |-> TRUE, paths |-> { restrict.val[i] : i \in 1..Len(restrict.val) }]
    ELSE NoFilter

\* filter_query: None, or Or(Term("path", p) for p in restrict_paths)
PathFilter(restrict) ==
    IF restrict.some /\ restrict.val # <<>>
    THEN [on |-> TRUE, paths |-> { restrict.val[i] : i \in 1..Len(restrict.val) }]
    ELSE NoFilter

\* the document numbers the query and the filter accept
Matching(ix, q, filter) ==
    { i \in 1..Len(ix) : Matches(q, ix[i]) /\ (filter.on => ix[i].path \in filter.paths) }

RECURSIVE Ranked(_, _, _)
\* by descending score sc, ties by ascending document number
Ranked(ix, sc, docs) ==
    IF docs = {} THEN <<>>
    ELSE LET best == CHOOSE i \in docs : \A j \in docs :
                        sc[i] > sc[j] \/ (sc[i] = sc[j] /\ i <= j)
         IN <<[path |-> ix[best].path, score |-> sc[best]]>> \o Ranked(ix, sc, docs \ {best})

\* searcher.search(query, limit=limit, filter=filter): the top `limit` results;
\* len(results) is the number of matching documents
searcher_search(ix, q, limit, filter) ==
    LET m == Matching(ix, q, filter)
        sc == [i \in m |-> Score(q, ix[i])]
        all == Ranked(ix, sc, m)
    IN [top |-> SubSeq(all, 1, Min(limit, Len(all))), total |-> Cardinality(m)]

\* a fetch of `limit` results only, whatever the offset
FetchLimit_page(limit, offset) == limit

\* the limit passed to the searcher
FetchLimit(limit, offset) == limit + offset

\* results[offset:offset + limit]
PageSlice(top, limit, offset) == SubSeq(top, offset + 1, Min(offset + limit, Len(top)))

\* the search endpoint
search(ix, req) ==
    LET query == build_whoosh_query(req.terms, req.rejects)
        results == searcher_search(ix, query, FetchLimit(req.limit, req.offset),
                                   PathFilter(req.restrict_paths))
    IN [hits |-> PageSlice(results.top, req.limit, req.offset), total |-> results.total]

HitPaths(hits) == [i \in 1..Len(hits) |-> hits[i].path]
HitPathSet(hits) == { hits[i].path : i \in 1..Len(hits) }

-----------------------------------------------------------------------------
(* Inputs *)

Term(type, value, flags, sub) == [type |-> type, value |-> value, flags |-> flags, sub |-> sub]

P_abc == <<"a", "b", "c">>
P_abcOpt == <<"a", "b", "c", "?">>
P_ab == <<"a", "b">>
P_abOrAbc == <<"a", "b", "c", "|", "A", "b">>

WordAb == Term("word", T_ab, <<>>, <<>>)
RegexTerms ==
    { Term("regex", P_abc, <<>>, <<>>), Term("regex", P_abcOpt, <<>>, <<>>),
      Term("regex", P_ab, <<"i">>, <<>>), Term("regex", P_abOrAbc, <<>>, <<>>) }

TermLists ==
    { <<>>, <<WordAb>>,
      <<Term("phrase", <<"a", "b", " ", "a", "b">>, <<>>, <<>>)>>,
      <<Term("line", <<>>, <<>>, <<Term("word", T_abc, <<>>, <<>>)>>)>>,
      <<Term("tag", <<"t">>, <<>>, <<>>)>>,
      <<WordAb, Term("regex", P_abc, <<>>, <<>>)>> }
    \cup { <<t>> : t \in RegexTerms }

HasRegex(terms) ==
    \E i \in 1..Len(terms) :
        \/ terms[i].type = "regex"
        \/ terms[i].sub # <<>> /\ terms[i].sub[1].type = "regex"

NoRestrict == [some |-> FALSE, val |-> <<>>]
Restricts ==
    { NoRestrict, [some |-> TRUE, val |-> <<>>],
      [some |-> TRUE, val |-> <<"b.md">>], [some |-> TRUE, val |-> <<"notes/a.md", "zz.md">>] }

Req(t, r, l, o, x) ==
    [terms |-> t, restrict_paths |-> r, limit |-> l, offset |-> o, rejects |-> x]

\* first pages of every term list under every path restriction
Requests ==
    { Req(t, r, l, 0, x) : t \in TermLists, r \in Restricts, l \in 1..MaxLimit, x \in BOOLEAN }

PagePaths == Paths \cup {"c.md"}

\* every page of a few queries
PageRequests ==
    { Req(t, r, l, o, FALSE) :
        t \in { <<>>, <<WordAb>>, <<Term("regex", P_ab, <<"i">>, <<>>)>> },
        r \in { NoRestrict, [some |-> TRUE, val |-> <<"notes/a.md", "c.md">>] },
        l \in 1..MaxLimit, o \in 0..MaxOffset }

\* the paths of the records that the query built from the terms matches
MatchSet(ix, terms) ==
    { ix[i].path : i \in Matching(ix, build_whoosh_query(terms, FALSE), NoFilter) }

\* an unrestricted first page of the largest size
Probe(terms, limit) == Req(terms, NoRestrict, limit, 0, FALSE)

BatchDocs ==
    { [path |-> p, content |-> T_ab, name |-> PathName(p), tags |-> <<>>, props |-> <<>>,
       bad |-> FALSE] : p \in Paths }
    \cup { [path |-> "b.md", content |-> T_abc, name |-> "b.md", tags |-> <<>>,
            props |-> <<>>, bad |-> TRUE] }

Batches == UNION { [1..n -> BatchDocs] : n \in 1..MaxBatch }

GoodPaths(docs) == { docs[i].path : i \in { k \in 1..Len(docs) : ~docs[k].bad } }

-----------------------------------------------------------------------------
(* State *)

NoFile == [exists |-> FALSE, content |-> <<>>, mtime |-> 0]
File(content, mtime) == [exists |-> TRUE, content |-> content, mtime |-> mtime]

\* the file that ensure_vault_structure writes into a new vault
WelcomePath == "notes/Welcome.md"
VaultPaths == Paths \cup {WelcomePath}

\* a user's vault directory: dir = data/vaults/user_<id> exists
NoVault == [dir |-> FALSE, files |-> [p \in VaultPaths |-> NoFile]]

NoScan == [state |-> "none", locked |-> "none", tenants |-> {}, indexed |-> 0,
           skipped |-> 0, errors |-> 0, seen |-> 0, snapshot |-> <<>>, unchanged |-> {},
           upserts |-> {}, count0 |-> 0, files0 |-> 0, new0 |-> 0, baddirs |-> 0,
           clean |-> TRUE, aborted |-> FALSE, lastuser |-> 0, nodeny |-> TRUE]

Idle == [op |-> "none"]

\* no indexer write in progress
NoWrite == [state |-> "idle", op |-> "none"]

InitCommon ==
    /\ clock = 0
    /\ last = Idle
    /\ lock = NoWorker
    /\ wpc = [w \in Workers |-> "boot"]
    /\ scan = [w \in Workers |-> NoScan]
    /\ wlock = NoWorker
    /\ wop = [w \in Workers |-> NoWrite]

Init ==
    /\ InitCommon
    /\ index = <<>>
    /\ dead = 0
    /\ upserted = {}
    /\ vault = [t \in Tenants |-> NoVault]
    /\ userIndex = [t \in Tenants |-> {}]

\* time passes
Tick ==
    /\ clock < MaxClock
    /\ clock' = clock + 1
    /\ UNCHANGED <<index, last, vault, userIndex, lock, wpc, scan, dead, upserted, wlock, wop>>

\* A commit leaves the documents it deleted in their segments until the segments
\* are merged; the merge policy decides at each commit (merge), and the model has
\* it merge before more than MaxDead deleted documents pile up.
CanCommit(removed, merge) == merge \/ dead + removed <= MaxDead
AfterCommit(removed, merge) == IF merge THEN 0 ELSE dead + removed

-----------------------------------------------------------------------------
(* The search router's endpoints (app/search/api.py) *)

UpsertArgs(path, content, name, tags, props) ==
    [path |-> path, content |-> content, name |-> name, tags |-> tags, props |-> props]

\* POST /search/index
IndexFile(path, content, meta, fails, merge) ==
    LET r == upsert_document(index, path, content, PathName(path), meta.tags, meta.props,
                             NoMtime, clock, fails)
        args == UpsertArgs(path, content, PathName(path), meta.tags, meta.props)
        repeat == r.ok /\ last.op = "upsert" /\ last.ok /\ last.args = args
    IN /\ IF r.ok THEN CanCommit(r.removed, merge) ELSE ~merge
       /\ index' = r.ix
       /\ dead' = IF r.ok THEN AfterCommit(r.removed, merge) ELSE dead
       /\ upserted' = IF r.ok THEN upserted \cup {path} ELSE upserted
       /\ last' = [op |-> "upsert", path |-> path, ok |-> r.ok, args |-> args,
                   repeat |-> repeat, pre |-> IF repeat THEN index ELSE <<>>,
                   pre_count |-> IF repeat THEN doc_count(index, dead) ELSE 0]
       /\ UNCHANGED <<clock, vault, userIndex, lock, wpc, scan, wlock, wop>>

\* DELETE /search/index/{path}
DeleteFromIndex(path, fails, merge) ==
    LET r == delete_document(index, path, fails) IN
    /\ IF r.ok THEN CanCommit(r.removed, merge) ELSE ~merge
    /\ index' = r.ix
    /\ dead' = IF r.ok THEN AfterCommit(r.removed, merge) ELSE dead
    /\ upserted' = IF r.ok THEN upserted \ {path} ELSE upserted
    /\ last' = [op |-> "delete", path |-> path, ok |-> r.ok,
                only |-> { t \in TermLists : MatchSet(index, t) = {path} }]
    /\ UNCHANGED <<clock, vault, userIndex, lock, wpc, scan, wlock, wop>>

\* MarkdownIndexer.batch_upsert
BatchUpsert(docs, mode, merge) ==
    LET r == batch_upsert(index, docs, clock, mode) IN
    /\ IF r.committed THEN CanCommit(r.removed, merge) ELSE ~merge
    /\ index' = r.ix
    /\ dead' = IF r.committed THEN AfterCommit(r.removed, merge) ELSE dead
    /\ upserted' = IF r.committed THEN upserted \cup GoodPaths(docs) ELSE upserted
    /\ last' = [op |-> "batch", paths |-> GoodPaths(docs), count |-> r.count,
                committed |-> r.committed, cancelled |-> r.cancelled, mode |-> mode,
                good |-> Len(SelectSeq(docs, LAMBDA d : ~d.bad)),
                badfirst |-> docs[1].bad, pre |-> index]
    /\ UNCHANGED <<clock, vault, userIndex, lock, wpc, scan, wlock, wop>>

\* POST /search/clear
ClearIndex(fails) ==
    LET r == clear_index(index, fails) IN
    /\ index' = r.ix
    /\ dead' = IF r.ok THEN 0 ELSE dead
    /\ upserted' = IF r.ok THEN {} ELSE upserted
    /\ last' = [op |-> "clear", ok |-> r.ok]
    /\ UNCHANGED <<clock, vault, userIndex, lock, wpc, scan, wlock, wop>>

\* POST /search/optimize
OptimizeIndex(fails) ==
    LET r == optimize(index, fails) IN
    /\ index' = r.ix
    /\ dead' = IF r.ok THEN 0 ELSE dead
    /\ last' = [op |-> "optimize", ok |-> r.ok]
    /\ UNCHANGED <<clock, vault, userIndex, lock, wpc, scan, upserted, wlock, wop>>

\* GET /search/stats
GetStats ==
    /\ last' = [op |-> "stats", doc_count |-> doc_count(index, dead)]
    /\ UNCHANGED <<index, clock, vault, userIndex, lock, wpc, scan, dead, upserted, wlock, wop>>

\* POST /search: the request passes SearchRequest's validation
Search(req) ==
    /\ req.limit >= 1 /\ req.limit <= LimitCap /\ req.offset >= 0
    /\ HasRegex(req.terms) \/ ~req.rejects
    /\ LET resp == search(index, req) IN
       last' = [op |-> "search", req |-> req, hits |-> resp.hits, total |-> resp.total]
    /\ UNCHANGED <<index, clock, vault, userIndex, lock, wpc, scan, dead, upserted, wlock, wop>>

Meta0 == [tags |-> <<>>, props |-> <<>>]
Meta1 == [tags |-> << <<"t">>, <<"u">> >>,
          props |-> << [k |-> "k", v |-> "v"], [k |-> "n", v |-> None] >>]

\* the documents POST /search/index is called with
IndexInputs == { <<T_ab, Meta0>>, <<T_abc, Meta1>> }

\* the indexer's write operations and its statistics
Next ==
    \/ Tick
    \/ \E p \in Paths, d \in IndexInputs, f, g \in BOOLEAN : IndexFile(p, d[1], d[2], f, g)
    \/ \E p \in Paths, f, g \in BOOLEAN : DeleteFromIndex(p, f, g)
    \/ \E d \in Batches, mode \in {"ok", "open", "commit"}, g \in BOOLEAN : BatchUpsert(d, mode, g)
    \/ \E f \in BOOLEAN : ClearIndex(f)
    \/ \E f \in BOOLEAN : OptimizeIndex(f)
    \/ GetStats

Spec == Init /\ [][Next]_vars

\* searches against the indexes that upserts and deletes produce
NextSearch ==
    \/ \E p \in Paths, c \in Contents : IndexFile(p, c, Meta0, FALSE, TRUE)
    \/ \E p \in Paths : DeleteFromIndex(p, FALSE, TRUE)
    \/ \E req \in Requests : Search(req)

SpecSearch == Init /\ [][NextSearch]_vars

\* paging through the results of a query
NextPage ==
    \/ \E p \in PagePaths, c \in {T_ab, T_Ab_ab} : IndexFile(p, c, Meta0, FALSE, TRUE)
    \/ \E p \in PagePaths : DeleteFromIndex(p, FALSE, TRUE)
    \/ \E req \in PageRequests : Search(req)

SpecPage == Init /\ [][NextPage]_vars

-----------------------------------------------------------------------------
(* The vault and the per-user index (app/vault_service.py,                  *)
(* app/search_service.py)                                                   *)

NoError == "none"

\* the welcome note's text
T_welcome == <<"w">>

\* VaultService.__init__ -> ensure_vault_structure: the directories are made and
\* notes/Welcome.md is written when it does not exist
ensure_vault_structure(v, now) ==
    [dir |-> TRUE,
     files |-> IF v.files[WelcomePath].exists THEN v.files
               ELSE [v.files EXCEPT ![WelcomePath] = File(T_welcome, now)]]

\* VaultService.write_file: big = the content is larger than MAX_NOTE_SIZE
write_file(v, path, content, now, big) ==
    IF big THEN [raised |-> "ValueError", v |-> v]
    ELSE [raised |-> NoError, v |-> [v EXCEPT !.files[path] = File(content, now)]]

\* VaultService.delete_file: unlink when the file exists
delete_file(v, path) == [v EXCEPT !.files[path] = NoFile]

\* VaultService.rename_file
rename_file(v, old_path, new_path) ==
    IF ~v.files[old_path].exists THEN [raised |-> "FileNotFoundError", v |-> v]
    ELSE IF v.files[new_path].exists THEN [raised |-> "ValueError", v |-> v]
    ELSE [raised |-> NoError,
          v |-> [v EXCEPT !.files[new_path] = v.files[old_path], !.files[old_path] = NoFile]]

\* VaultService.read_file: 'modified' is stats.st_mtime, a float
read_file(v, path) ==
    IF ~v.files[path].exists
    THEN [raised |-> "FileNotFoundError", path |-> path, content |-> <<>>,
          modified |-> [type |-> "float", val |-> 0], size |-> 0]
    ELSE [raised |-> NoError, path |-> path, content |-> v.files[path].content,
          modified |-> [type |-> "float", val |-> v.files[path].mtime],
          size |-> Len(v.files[path].content)]

\* the order in which rglob('*.md') walks a vault
WalkOrder == <<"b.md", "notes/Welcome.md", "notes/a.md">>

RECURSIVE ByMtimeDesc(_, _)
\* sorted(files, key=mtime, reverse=True), a stable sort
ByMtimeDesc(files, t) ==
    LET at == SelectSeq(files, LAMBDA f : f.mtime = t)
    IN IF t = 0 THEN at ELSE at \o ByMtimeDesc(files, t - 1)

\* VaultService.list_files: one dict per markdown file, newest first
list_files(v) ==
    LET found == SelectSeq(WalkOrder, LAMBDA p : v.files[p].exists)
        dicts == [i \in 1..Len(found) |->
                    [type |-> "dict", path |-> found[i], name |-> PathName(found[i]),
                     mtime |-> v.files[found[i]].mtime,
                     size |-> Len(v.files[found[i]].content)]]
    IN IF ~v.dir THEN <<>> ELSE ByMtimeDesc(dicts, MaxClock + 1)

\* SearchService.index_file: the exception of a failed write is raised again
index_file(ux, path, fails) ==
    IF fails THEN [raised |-> "Exception", ux |-> ux]
    ELSE [raised |-> NoError, ux |-> ux \cup {path}]

\* SearchService.remove_file: the exception of a failed write is raised again
remove_file(ux, path, fails) ==
    IF fails THEN [raised |-> "Exception", ux |-> ux]
    ELSE [raised |-> NoError, ux |-> ux \ {path}]

-----------------------------------------------------------------------------
(* The file API (app/api/files.py).  An exception that a handler does not   *)
(* catch is answered with status 500 by ErrorHandlingMiddleware.            *)

\* create_file and update_file: write the file, index it for the user's index,
\* then upsert it into the MarkdownIndexer with tags=[] and props={}
WriteThrough(op, success, t, path, content, big, sfail, ifail, merge) ==
    LET v0 == ensure_vault_structure(vault[t], clock)
        w == write_file(v0, path, content, clock, big)
        s == IF w.raised = NoError THEN index_file(userIndex[t], path, sfail)
             ELSE [raised |-> NoError, ux |-> userIndex[t]]
        reached == w.raised = NoError /\ s.raised = NoError
        r == IF reached
             THEN upsert_document(index, path, content, PathName(path), <<>>, <<>>,
                                  NoMtime, clock, ifail)
             ELSE [ok |-> FALSE, ix |-> index, removed |-> 0]
        status == IF w.raised = "ValueError" THEN 400
                  ELSE IF s.raised # NoError THEN 500
                  ELSE success
    IN /\ IF r.ok THEN CanCommit(r.removed, merge) ELSE ~merge
       /\ vault' = [vault EXCEPT ![t] = w.v]
       /\ userIndex' = [userIndex EXCEPT ![t] = s.ux]
       /\ index' = r.ix
       /\ dead' = IF r.ok THEN AfterCommit(r.removed, merge) ELSE dead
       /\ upserted' = IF r.ok THEN upserted \cup {path} ELSE upserted
       /\ last' = [op |-> op, tenant |-> t, path |-> path, content |-> content,
                   status |-> status, written |-> w.raised = NoError,
                   index_failed |-> /\ w.raised = NoError
                                    /\ s.raised # NoError \/ ~r.ok]
       /\ UNCHANGED <<clock, lock, wpc, scan, wlock, wop>>

\* POST /api/files/
create_file(t, path, content, big, sfail, ifail, merge) ==
    WriteThrough("create_file", 201, t, path, content, big, sfail, ifail, merge)

\* PUT /api/files/{path}
update_file(t, path, content, big, sfail, ifail, merge) ==
    WriteThrough("update_file", 200, t, path, content, big, sfail, ifail, merge)

\* DELETE /api/files/{path}: the file is unlinked and removed from the user's index
DeleteFile(t, path, sfail) ==
    LET v0 == ensure_vault_structure(vault[t], clock)
        s == remove_file(userIndex[t], path, sfail)
    IN /\ vault' = [vault EXCEPT ![t] = delete_file(v0, path)]
       /\ userIndex' = [userIndex EXCEPT ![t] = s.ux]
       /\ last' = [op |-> "delete_file", tenant |-> t, path |-> path,
                   status |-> IF s.raised # NoError THEN 500 ELSE 200]
       /\ UNCHANGED <<index, clock, lock, wpc, scan, dead, upserted, wlock, wop>>

\* POST /api/files/rename: the file is renamed, the old path is removed from the
\* user's index, the new path is read and indexed in the user's index
RenameFile(t, old_path, new_path, sfail1, sfail2) ==
    LET v0 == ensure_vault_structure(vault[t], clock)
        m == rename_file(v0, old_path, new_path)
        s1 == IF m.raised = NoError THEN remove_file(userIndex[t], old_path, sfail1)
              ELSE [raised |-> NoError, ux |-> userIndex[t]]
        file_data == read_file(m.v, new_path)
        s2 == IF m.raised = NoError /\ s1.raised = NoError /\ file_data.raised = NoError
              THEN index_file(s1.ux, new_path, sfail2)
              ELSE [raised |-> NoError, ux |-> s1.ux]
        status == IF m.raised # NoError THEN 400
                  ELSE IF s1.raised # NoError \/ s2.raised # NoError THEN 500
                  ELSE IF file_data.raised # NoError THEN 400
                  ELSE 200
    IN /\ vault' = [vault EXCEPT ![t] = m.v]
       /\ userIndex' = [userIndex EXCEPT ![t] = s2.ux]
       /\ last' = [op |-> "rename_file", tenant |-> t, path |-> old_path,
                   new_path |-> new_path, status |-> status]
       /\ UNCHANGED <<index, clock, lock, wpc, scan, dead, upserted, wlock, wop>>

\* the requests of one user to the file API
NextFiles ==
    \/ \E p \in Paths, b, f1, f2, g \in BOOLEAN : create_file(1, p, T_ab, b, f1, f2, g)
    \/ \E p \in Paths, b, f1, f2, g \in BOOLEAN : update_file(1, p, T_tag, b, f1, f2, g)
    \/ \E p \in Paths, f \in BOOLEAN : DeleteFile(1, p, f)
    \/ \E p, q \in Paths, f1, f2 \in BOOLEAN : RenameFile(1, p, q, f1, f2)

SpecFiles == Init /\ [][NextFiles]_vars

-----------------------------------------------------------------------------
(* The bulk reindex and the lifespan that starts it (app/main.py) *)

\* settings.INDEX_ON_STARTUP
INDEX_ON_STARTUP == TRUE

\* the attributes that the objects of the model have: a dict and a float have
\* neither .path nor .replace
Attributes == { <<"object", "path">>, <<"str", "replace">> }

\* every object has every attribute
HasAttr_any(obj, attr) == TRUE

\* obj.attr on a Python object
HasAttr(obj, attr) == <<obj.type, attr>> \in Attributes

\* file_info.path.endswith('.md')
EndsWithMd(path) == path \in VaultPaths

\* indexed_docs: path -> stored mtime of the records, a later record of a path
\* replacing an earlier one
Snapshot(ix) ==
    [p \in PathsOf(ix) |->
        LET at == { i \in 1..Len(ix) : ix[i].path = p }
        IN ix[CHOOSE i \in at : \A j \in at : j <= i].mtime]

\* the characters of [a-zA-Z0-9_/\-] in the alphabet of the model
TagChars == {"a", "b", "c", "A", "B", "C", "_", "/", "-"}

RECURSIVE FindTags(_, _, _, _, _)
\* tag_pattern.findall: every '#' followed by a longest run of tag characters;
\* tag = inside a run, cur = the run so far
FindTags(s, i, tag, cur, acc) ==
    LET done == IF tag /\ cur # <<>> THEN Append(acc, cur) ELSE acc IN
    IF i > Len(s) THEN done
    ELSE IF tag /\ s[i] \in TagChars THEN FindTags(s, i + 1, TRUE, Append(cur, s[i]), acc)
    ELSE IF s[i] = "#" THEN FindTags(s, i + 1, TRUE, <<>>, done)
    ELSE FindTags(s, i + 1, FALSE, <<>>, done)

RECURSIVE UniqueTags_exact(_, _, _)
\* variant: the tags are compared as written, upper and lower case apart
UniqueTags_exact(tags, seen, acc) ==
    IF tags = <<>> THEN acc
    ELSE IF Head(tags) \in seen THEN UniqueTags_exact(Tail(tags), seen, acc)
    ELSE UniqueTags_exact(Tail(tags), seen \cup {Head(tags)}, Append(acc, Head(tags)))

RECURSIVE UniqueTags(_, _, _)
\* the tags in order, without those whose lower case was seen before
UniqueTags(tags, seen, acc) ==
    IF tags = <<>> THEN acc
    ELSE IF Lower(Head(tags)) \in seen THEN UniqueTags(Tail(tags), seen, acc)
    ELSE UniqueTags(Tail(tags), seen \cup {Lower(Head(tags))}, Append(acc, Head(tags)))

\* MarkdownParser.extract_tags; the contents of the model hold no frontmatter
extract_tags(content) == UniqueTags(FindTags(content, 1, FALSE, <<>>, <<>>), {}, <<>>)

\* extract_metadata_for_index -> extract_for_indexing: the name is the last
\* component of the path, the tags are the extracted tags, the props are those
\* of the frontmatter
extract_metadata_for_index(content, path) ==
    [name |-> PathName(path), tags |-> extract_tags(content), props |-> <<>>]

\* the body of the loop over a user's files, lines 107-146: st holds the index,
\* the writer that an earlier failed upsert of the run left open, and the
\* counters of the run.  fails = update_document or commit raises in the upsert.
IndexOne(path, v, snap, st, fails) ==
    LET file_data == read_file(v, path) IN
    IF file_data.raised # NoError THEN [st EXCEPT !.errors = @ + 1]
    \* modified_str.replace(...): a float has no replace
    ELSE IF ~HasAttr(file_data.modified, "replace") THEN [st EXCEPT !.errors = @ + 1]
    ELSE LET file_mtime == file_data.modified.val
             metadata == extract_metadata_for_index(file_data.content, path)
             r == upsert_document(st.ix, path, file_data.content, metadata.name,
                                  metadata.tags, metadata.props, AwareMtime(file_mtime),
                                  file_mtime, FALSE)
         IN IF path \in DOMAIN snap /\ file_mtime <= snap[path].t
            THEN [st EXCEPT !.skipped = @ + 1]
            \* the lock is taken: AsyncWriter queues the write and returns
            ELSE IF st.writer = "open" THEN [st EXCEPT !.indexed = @ + 1]
            \* the upsert fails and returns False; its writer stays open
            ELSE IF fails THEN [st EXCEPT !.writer = "open", !.indexed = @ + 1]
            ELSE [st EXCEPT !.ix = r.ix, !.removed = @ + r.removed,
                            !.indexed = @ + 1, !.upserts = @ \cup {path}]

RECURSIVE IndexFiles(_, _, _, _, _)
\* for file_info in files, lines 103-146: an exception outside the inner try
\* leaves the loop for the handler at line 148
IndexFiles(files, v, snap, st, fails) ==
    IF files = <<>> THEN st
    ELSE LET file_info == Head(files)
             st1 == [st EXCEPT !.seen = @ + 1]
         IN IF ~HasAttr(file_info, "path") THEN [st1 EXCEPT !.errors = @ + 1]
            ELSE IF ~EndsWithMd(file_info.path)
            THEN IndexFiles(Tail(files), v, snap, st1, fails)
            ELSE IndexFiles(Tail(files), v, snap,
                            IndexOne(file_info.path, v, snap, st1, fails), fails)

\* the markdown files of the vaults
VaultFiles ==
    { tp \in Tenants \X VaultPaths : vault[tp[1]].dir /\ vault[tp[1]].files[tp[2]].exists }

\* the files whose record in the index is as new as the file on disk
Unchanged(ix) ==
    { tp \in VaultFiles :
        /\ tp[2] \in PathsOf(ix)
        /\ vault[tp[1]].files[tp[2]].mtime <= Snapshot(ix)[tp[2]].t }

\* a worker that finds the lock taken creates the task all the same
LifespanLock_scan(w) ==
    /\ wpc[w] = "boot"
    /\ IF lock = NoWorker
       THEN /\ lock' = w /\ wpc' = [wpc EXCEPT ![w] = "locked"]
            /\ scan' = [scan EXCEPT ![w].locked = "acquired"]
       ELSE /\ lock' = lock /\ wpc' = [wpc EXCEPT ![w] = "serving"]
            /\ scan' = [scan EXCEPT ![w].locked = "timeout", ![w].state = "pending"]
    /\ UNCHANGED <<index, clock, last, vault, userIndex, dead, upserted, wlock, wop>>

\* lifespan, lines 40-43 and 47-48: the worker takes the file lock without
\* waiting, or finds it taken (Timeout), logs that and starts serving without a
\* scan
LifespanLock(w) ==
    /\ wpc[w] = "boot"
    /\ IF ~INDEX_ON_STARTUP
       THEN lock' = lock /\ wpc' = [wpc EXCEPT ![w] = "serving"] /\ scan' = scan
       ELSE IF lock = NoWorker
       THEN /\ lock' = w /\ wpc' = [wpc EXCEPT ![w] = "locked"]
            /\ scan' = [scan EXCEPT ![w].locked = "acquired"]
       ELSE /\ lock' = lock /\ wpc' = [wpc EXCEPT ![w] = "serving"]
            /\ scan' = [scan EXCEPT ![w].locked = "timeout"]
    /\ UNCHANGED <<index, clock, last, vault, userIndex, dead, upserted, wlock, wop>>

\* lifespan, lines 44-50: inside the with block the task is created; leaving the
\* block releases the lock, and the worker starts serving
LifespanCreateTask(w) ==
    /\ wpc[w] = "locked"
    /\ scan' = [scan EXCEPT ![w].state = "pending"]
    /\ lock' = NoWorker
    /\ wpc' = [wpc EXCEPT ![w] = "serving"]
    /\ UNCHANGED <<index, clock, last, vault, userIndex, dead, upserted, wlock, wop>>

\* auto_index_all_files, lines 69-96: the task starts to run, reads the stored
\* mtimes of the index and finds the user directories; bad = the number of
\* user_* directories whose name holds no tenant id, which the loop passes over
ScanStart(w, bad) ==
    /\ scan[w].state = "pending"
    /\ scan' = [scan EXCEPT ![w].state = "running",
                            ![w].tenants = { t \in Tenants : vault[t].dir },
                            ![w].snapshot = Snapshot(index),
                            ![w].unchanged = Unchanged(index),
                            ![w].count0 = doc_count(index, dead),
                            ![w].files0 = Cardinality(VaultFiles),
                            ![w].new0 = Cardinality(VaultFiles \ Unchanged(index)),
                            ![w].baddirs = bad]
    /\ UNCHANGED <<index, clock, last, vault, userIndex, lock, wpc, dead, upserted, wlock, wop>>

\* auto_index_all_files, lines 98-150: one user directory.  deny = "init":
\* VaultService(user_id) raises on a directory it may not write (line 98, outside
\* the try: the handler at line 173 ends the run); deny = "list": list_files
\* raises (the handler at line 148 counts an error)
ScanUser(w, t, deny, fails) ==
    /\ scan[w].state = "running"
    /\ t \in scan[w].tenants
    /\ LET v1 == ensure_vault_structure(vault[t], clock)
           st0 == [ix |-> index, removed |-> 0, indexed |-> scan[w].indexed,
                   skipped |-> scan[w].skipped, errors |-> scan[w].errors,
                   seen |-> scan[w].seen, upserts |-> scan[w].upserts,
                   writer |-> IF wlock = NoWorker THEN "none" ELSE "open"]
           st == IF deny = "list" THEN [st0 EXCEPT !.errors = @ + 1]
                 ELSE IndexFiles(list_files(v1), v1, scan[w].snapshot, st0, fails)
       IN IF deny = "init"
          THEN /\ scan' = [scan EXCEPT ![w].state = "done", ![w].aborted = TRUE,
                                       ![w].clean = FALSE, ![w].nodeny = FALSE]
               /\ UNCHANGED <<vault, index, dead, upserted, wlock>>
          ELSE /\ vault' = [vault EXCEPT ![t] = v1]
               /\ index' = st.ix
               /\ dead' = dead + st.removed
               /\ upserted' = upserted \cup (st.upserts \ scan[w].upserts)
               /\ wlock' = IF wlock = NoWorker /\ st.writer = "open" THEN w ELSE wlock
               /\ scan' = [scan EXCEPT ![w].tenants = @ \ {t},
                                       ![w].indexed = st.indexed,
                                       ![w].skipped = st.skipped,
                                       ![w].errors = st.errors,
                                       ![w].seen = st.seen,
                                       ![w].upserts = st.upserts,
                                       ![w].clean = @ /\ deny = "no" /\ ~fails,
                                       ![w].nodeny = @ /\ deny = "no",
                                       ![w].lastuser = t]
    /\ UNCHANGED <<clock, last, userIndex, lock, wpc, wop>>

\* a run that ends by dropping the records whose file is in no vault
ScanFinish_prune(w) ==
    /\ scan[w].state = "running"
    /\ scan[w].tenants = {}
    /\ scan' = [scan EXCEPT ![w].state = "done"]
    /\ dead' = IF scan[w].indexed > 0 THEN 0 ELSE dead
    /\ index' = SelectSeq(index, LAMBDA rec : \E tp \in VaultFiles : tp[2] = rec.path)
    /\ UNCHANGED <<clock, last, vault, userIndex, lock, wpc, upserted, wlock, wop>>

\* auto_index_all_files, lines 152-171: the index is optimized when the run
\* indexed something, and the run is over
ScanFinish(w) ==
    /\ scan[w].state = "running"
    /\ scan[w].tenants = {}
    /\ scan' = [scan EXCEPT ![w].state = "done"]
    /\ dead' = IF scan[w].indexed > 0 THEN 0 ELSE dead
    /\ UNCHANGED <<index, clock, last, vault, userIndex, lock, wpc, upserted, wlock, wop>>

\* lifespan, lines 52-57: shutdown cancels the task when it is not done; the
\* task stops at the await it has reached, between two documents
Shutdown(w) ==
    /\ wpc[w] = "serving"
    /\ wpc' = [wpc EXCEPT ![w] = "stopped"]
    /\ scan' = IF scan[w].state \in {"pending", "running"}
               THEN [scan EXCEPT ![w].state = "cancelled"] ELSE scan
    /\ UNCHANGED <<index, clock, last, vault, userIndex, lock, dead, upserted, wlock, wop>>

\* no worker of this run has started: the requests of an earlier run
EarlierRun == \A w \in Workers : wpc[w] = "boot"

\* an earlier run writes files, then the workers start
NextReindex ==
    \/ Tick
    \/ /\ EarlierRun
       /\ \E t \in Tenants, f \in BOOLEAN : create_file(t, "notes/a.md", T_ab, FALSE, FALSE, f, TRUE)
    \/ \E w \in Workers : LifespanLock(w)
    \/ \E w \in Workers : LifespanCreateTask(w)
    \/ \E w \in Workers, b \in 0..MaxBadDirs : ScanStart(w, b)
    \/ \E w \in Workers, t \in Tenants, d \in {"no", "init", "list"}, f \in BOOLEAN :
          ScanUser(w, t, d, f)
    \/ \E w \in Workers : ScanFinish(w)
    \/ \E w \in Workers : Shutdown(w)

SpecReindex == Init /\ [][NextReindex]_vars

\* what a tenant writes into its note: the tenants' notes differ
TenantText(t) == IF t = 1 THEN T_ab ELSE T_abc

\* the one worker of a deployment without further workers
FirstWorker == "w1"

\* an earlier run in which the tenants write and delete notes at one path, then
\* the start of a single worker and its scan
NextRescan ==
    \/ /\ EarlierRun
       /\ \E t \in Tenants, f \in BOOLEAN :
             create_file(t, "notes/a.md", TenantText(t), FALSE, FALSE, f, TRUE)
    \/ /\ EarlierRun
       /\ \E t \in Tenants : DeleteFile(t, "notes/a.md", FALSE)
    \/ LifespanLock(FirstWorker)
    \/ LifespanCreateTask(FirstWorker)
    \/ ScanStart(FirstWorker, 0)
    \/ \E t \in Tenants, d \in {"no", "init", "list"}, f \in BOOLEAN :
          ScanUser(FirstWorker, t, d, f)
    \/ ScanFinish(FirstWorker)

SpecRescan == Init /\ [][NextRescan]_vars

-----------------------------------------------------------------------------------------------------------------------------------------------------
(* Writers of several workers on the one index (app/search/indexer.py).     *)
(* A writer holds the index's write lock from its opening to its commit or  *)
(* cancel.  ix.writer() raises LockError when the lock is taken.            *)
(* AsyncWriter(ix) does not: it keeps the documents and, on commit, starts  *)
(* a thread that waits for the lock and then writes and commits.            *)

\* the operations that open their writer with AsyncWriter(self.ix)
AsyncOps == {"upsert", "batch"}

\* the operations that open their writer with self.ix.writer()
SyncOps == {"delete", "clear", "optimize"}

\* the path and the document that the writes of this specification are about
WPath == "notes/a.md"
WDoc == [path |-> WPath, content |-> T_ab, name |-> PathName(WPath), tags |-> <<>>,
         props |-> <<>>, bad |-> FALSE]

\* what the commit of operation op makes of the index
Effect(op, ix, now) ==
    IF op = "upsert"
    THEN upsert_document(ix, WPath, T_ab, PathName(WPath), <<>>, <<>>, NoMtime, now, FALSE)
    ELSE IF op = "batch"
    THEN LET b == batch_upsert(ix, <<WDoc>>, now, "ok")
         IN [ok |-> TRUE, ix |-> b.ix, removed |-> b.removed]
    ELSE IF op = "delete" THEN delete_document(ix, WPath, FALSE)
    ELSE IF op = "clear" THEN [ok |-> TRUE, ix |-> clear_index(ix, FALSE).ix, removed |-> 0]
    ELSE [ok |-> TRUE, ix |-> optimize(ix, FALSE).ix, removed |-> 0]

\* the deleted documents the segments hold after the commit of op
DeadAfter(op, removed, merge) ==
    IF op \in {"clear", "optimize"} THEN 0 ELSE AfterCommit(removed, merge)

\* the paths upserted and not deleted since, after the commit of op
UpsertedAfter(op) ==
    IF op \in AsyncOps THEN upserted \cup {WPath}
    ELSE IF op = "delete" THEN upserted \ {WPath}
    ELSE IF op = "clear" THEN {}
    ELSE upserted

\* the operations whose handler cancels the writer when a later step raises
CancelsOnError == {"batch"}

\* a worker starts an indexer write: the writer is opened.  With the lock taken,
\* ix.writer() raises LockError and the operation returns False; AsyncWriter
\* queues the write and the operation returns True at once.
OpenWriter(w, op) ==
    /\ wop[w].state = "idle"
    /\ IF wlock = NoWorker
       THEN /\ wlock' = w
            /\ wop' = [wop EXCEPT ![w] = [state |-> "open", op |-> op]]
            /\ last' = [op |-> "open", kind |-> op, worker |-> w, ok |-> TRUE,
                        cause |-> NoError, opened |-> TRUE]
       ELSE IF op \in AsyncOps
       THEN /\ wlock' = wlock
            /\ wop' = [wop EXCEPT ![w] = [state |-> "queued", op |-> op]]
            /\ last' = [op |-> "write", kind |-> op, worker |-> w, ok |-> TRUE,
                        cause |-> NoError, opened |-> FALSE]
       ELSE /\ wlock' = wlock
            /\ wop' = wop
            /\ last' = [op |-> "write", kind |-> op, worker |-> w, ok |-> FALSE,
                        cause |-> "LockError", opened |-> FALSE]
    /\ UNCHANGED <<index, clock, vault, userIndex, lock, wpc, scan, dead, upserted>>

\* the rest of the operation with its writer open: the documents are written
\* and committed, which releases the lock; or a step raises (fails), the
\* exception is logged and the operation returns
CommitWriter(w, fails, merge) ==
    /\ wop[w].state = "open"
    /\ LET op == wop[w].op
           r == Effect(op, index, clock)
       IN IF fails
          THEN /\ ~merge
               /\ IF op \in CancelsOnError
                  THEN wlock' = NoWorker /\ wop' = [wop EXCEPT ![w] = NoWrite]
                  ELSE wlock' = wlock
                       /\ wop' = [wop EXCEPT ![w] = [state |-> "abandoned", op |-> op]]
               /\ last' = [op |-> "write", kind |-> op, worker |-> w, ok |-> FALSE,
                           cause |-> "Exception", opened |-> TRUE]
               /\ UNCHANGED <<index, dead, upserted>>
          ELSE /\ op \in {"clear", "optimize"} \/ CanCommit(r.removed, merge)
               /\ index' = r.ix
               /\ dead' = DeadAfter(op, r.removed, merge)
               /\ upserted' = UpsertedAfter(op)
               /\ wlock' = NoWorker
               /\ wop' = [wop EXCEPT ![w] = NoWrite]
               /\ last' = [op |-> "write", kind |-> op, worker |-> w, ok |-> TRUE,
                           cause |-> NoError, opened |-> TRUE]
    /\ UNCHANGED <<clock, vault, userIndex, lock, wpc, scan>>

\* AsyncWriter's thread: it takes the lock when it is free, writes the queued
\* documents and commits
RunQueued(w, merge) ==
    /\ wop[w].state = "queued"
    /\ wlock = NoWorker
    /\ LET r == Effect(wop[w].op, index, clock)
       IN /\ CanCommit(r.removed, merge)
          /\ index' = r.ix
          /\ dead' = AfterCommit(r.removed, merge)
    /\ upserted' = UpsertedAfter(wop[w].op)
    /\ wop' = [wop EXCEPT ![w] = NoWrite]
    /\ UNCHANGED <<clock, last, vault, userIndex, lock, wpc, scan, wlock>>

\* a writer that was neither committed nor cancelled keeps the lock until the
\* interpreter collects the writer object
Finalize(w) ==
    /\ wop[w].state = "abandoned"
    /\ wlock' = NoWorker
    /\ wop' = [wop EXCEPT ![w] = NoWrite]
    /\ UNCHANGED <<index, clock, last, vault, userIndex, lock, wpc, scan, dead, upserted>>

\* the indexer writes of the workers, interleaved
NextWriters ==
    \/ \E w \in Workers, op \in AsyncOps \cup SyncOps : OpenWriter(w, op)
    \/ \E w \in Workers, f, g \in BOOLEAN : CommitWriter(w, f, g)
    \/ \E w \in Workers, g \in BOOLEAN : RunQueued(w, g)
    \/ \E w \in Workers : Finalize(w)

SpecWriters == Init /\ [][NextWriters]_vars

-----
(* Claims about the indexer's write operations, checked under Spec *)

\* C1: every path that was upserted with success (by upsert_document or by a
\* committed batch_upsert) and not deleted since has exactly one record in the
\* index, and no path has two.
C1_Uniqueness ==
    /\ \A p \in upserted : CountPath(index, p) = 1
    /\ \A p \in Paths : CountPath(index, p) <= 1

\* C2: after delete_document(p) has returned true the index holds no record with
\* path p, and every query that matched only the record at p before the delete
\* gets zero hits.
C2_DeleteThenSearch ==
    (last.op = "delete" /\ last.ok) =>
        /\ ~HasPath(index, last.path)
        /\ \A t \in last.only :
              LET resp == search(index, Probe(t, MaxLimit))
              IN resp.hits = <<>> /\ resp.total = 0

\* a delete of an indexed path that some query matched alone, another record stays
C2_Witness ==
    /\ last.op = "delete" /\ last.ok /\ last.only # {}
    /\ Len(index) = 1

\* C8: upserting the same (path, content, name, tags, props) a second time leaves
\* doc_count as it was after the first upsert, and every search returns the same
\* hit paths as after the first.
C8_Idempotent ==
    (last.op = "upsert" /\ last.repeat) =>
        /\ doc_count(index, dead) = last.pre_count
        /\ \A t \in TermLists, l \in 1..MaxLimit :
              HitPaths(search(index, Probe(t, l)).hits)
                  = HitPaths(search(last.pre, Probe(t, l)).hits)

-----------------------------------------------------------------------------
(* Claims about search, checked under SpecSearch and SpecPage *)

RestrictSet(req) == { req.restrict_paths.val[i] : i \in 1..Len(req.restrict_paths.val) }

\* C3: with a non-empty restrict_paths, every hit of a search has a path that is
\* a member of restrict_paths.
C3_PathRestriction ==
    (last.op = "search" /\ last.req.restrict_paths.some
        /\ last.req.restrict_paths.val # <<>>) =>
        \A i \in 1..Len(last.hits) : last.hits[i].path \in RestrictSet(last.req)

\* a restricted search with a hit, while a record outside restrict_paths matches too
C3_Witness ==
    /\ last.op = "search" /\ last.req.restrict_paths.val = <<"b.md">>
    /\ Len(last.hits) = 1
    /\ \E i \in 1..Len(index) :
          /\ index[i].path = "notes/a.md"
          /\ Matches(build_whoosh_query(last.req.terms, last.req.rejects), index[i])

\* C5: for a regex term whose literal prefix has at least 3 characters, the query
\* built with the trigram prefilter clause has the same set of hits as the query
\* built without it.
C5_PrefilterEquivalence ==
    (/\ last.op = "search" /\ ~last.req.rejects
     /\ Len(last.req.terms) = 1 /\ last.req.terms[1].type = "regex"
     /\ Len(extract_regex_prefix(last.req.terms[1].value)) >= MinPrefixLen) =>
        Matching(index, build_whoosh_query(last.req.terms, FALSE),
                 PathFilter(last.req.restrict_paths))
          = Matching(index, Combine(RegexClausesPlain(last.req.terms[1], FALSE)),
                     PathFilter(last.req.restrict_paths))

\* C7: for a query and an index state, the page (limit=k, offset=0) followed by
\* the page (limit=k, offset=k) is the page (limit=2k, offset=0).
C7_Pagination ==
    (last.op = "search" /\ last.req.offset = last.req.limit) =>
        search(index, [last.req EXCEPT !.offset = 0]).hits \o last.hits
            = search(index, [last.req EXCEPT !.limit = 2 * last.req.limit, !.offset = 0]).hits

\* a non-empty second page
C7_Witness ==
    /\ last.op = "search" /\ last.req.offset = last.req.limit
    /\ Len(last.hits) >= 1 /\ last.total = 3

------------------------------------------------------------------------\* the terms of a request without its regex terms
WithoutRegex(terms) == SelectSeq(terms, LAMBDA t : t.type # "regex")

\* C19: a regex term whose pattern is rejected contributes no clause to the
\* query and does not fail the search: the hits are those of the query built
\* from the remaining terms.
C19_BadTermDropped ==
    (last.op = "search" /\ last.req.rejects) =>
        HitPaths(last.hits)
            = HitPaths(search(index, [last.req EXCEPT !.terms = WithoutRegex(@),
                                                      !.rejects = FALSE]).hits)

\* C14: when batch_upsert hits a batch-level exception (the writer cannot be
\* opened, or the final commit fails and the writer is cancelled), the index is
\* as it was before the batch: no document of the batch is added or changed.
C14_BatchAllOrNothing ==
    (last.op = "batch" /\ ~last.committed) =>
        /\ index = last.pre
        /\ last.mode = "commit" => last.cancelled

\* a batch with a queued document whose commit failed, on an index with a record
C14_Witness ==
    /\ last.op = "batch" /\ ~last.committed /\ last.mode = "commit"
    /\ last.count >= 1 /\ last.pre # <<>>

\* C15: in a committed batch a document whose update fails is skipped: every
\* other document of the batch is in the index after the commit, and the
\* returned count is the number of documents whose update was queued.
C15_BatchSkipsBadDocument ==
    (last.op = "batch" /\ last.committed) =>
        /\ last.paths \subseteq PathsOf(index)
        /\ last.count = last.good

\* a committed batch whose first document failed and whose second was queued
C15_Witness ==
    /\ last.op = "batch" /\ last.committed
    /\ last.badfirst /\ last.count = 1 /\ last.paths = {"notes/a.md"}

-----
(* Claims about the file API, checked under SpecFiles *)

\* C9: when the index write that follows a successful file write fails, the file
\* holds the new content and the create or update request reports success.
C9_IndexFailureIsolated ==
    (last.op \in {"create_file", "update_file"} /\ last.written /\ last.index_failed) =>
        /\ last.status \in {200, 201}
        /\ vault[last.tenant].files[last.path].exists
        /\ vault[last.tenant].files[last.path].content = last.content

\* C10: after a successful delete through the file API the MarkdownIndexer's
\* index holds no record for the path; after a successful rename it holds no
\* record for the old path and holds one for the new path.
C10_IndexFollowsFiles ==
    /\ (last.op = "delete_file" /\ last.status = 200) => ~HasPath(index, last.path)
    /\ (last.op = "rename_file" /\ last.status = 200) =>
          ~HasPath(index, last.path) /\ HasPath(index, last.new_path)

\* C20: after a file was created or updated through the file API and indexed,
\* the index record for its path carries the tags extracted from the written
\* content.
C20_RecordCarriesTags ==
    (last.op \in {"create_file", "update_file"} /\ last.written /\ ~last.index_failed) =>
        \E i \in 1..Len(index) :
            /\ index[i].path = last.path
            /\ index[i].tags = TagsStr(extract_metadata_for_index(last.content, last.path).tags)

-----------------------------------------------------------------------------
(* Claims about the bulk reindex, checked under SpecReindex *)

\* C4: at most one bulk reindex scan runs at any time across the workers.
C4_SingleScan == Cardinality({ w \in Workers : scan[w].state = "running" }) <= 1

\* C6: a file whose record in the index is as new as the file on disk is not
\* upserted by a bulk reindex run: it is counted as skipped, it adds nothing to
\* the indexed count, and a run that indexed nothing leaves doc_count unchanged.
C6_SkipUnchanged ==
    \A w \in Workers :
        scan[w].state = "done" =>
            /\ scan[w].skipped >= Cardinality(scan[w].unchanged)
            /\ scan[w].upserts \cap { tp[2] : tp \in scan[w].unchanged } = {}
            /\ scan[w].indexed = 0 => doc_count(index, dead) = scan[w].count0

-----------------------------------------------------------------------------
(* Claims about concurrent writers, checked under SpecWriters *)

\* C11: a write operation issued while another writer is open on the index waits
\* for it and then takes effect; it does not fail because of the other writer.
C11_WritesWait == last.op = "write" => last.cause # "LockError"

\* C12: after an indexer write operation failed at a step after its writer was
\* opened, the writer has been cancelled: the worker's writer does not hold the
\* write lock any more.
C12_FailedWriterCancelled ==
    (last.op = "write" /\ ~last.ok /\ last.opened) => wlock # last.worker

C16_LockBusySkipsScan ==
    \A w \in Workers :
        scan[w].locked = "timeout" =>
            /\ scan[w].state = "none"
            /\ wpc[w] \in {"serving", "stopped"}
            /\ scan[w].seen = 0 /\ scan[w].indexed = 0 /\ scan[w].errors = 0
            /\ scan[w].upserts = {}

\* a worker that found the lock taken is serving, while the other worker's scan
\* has run
C16_Witness ==
    \E w, x \in Workers :
        scan[w].locked = "timeout" /\ wpc[w] = "serving" /\ scan[x].state = "done"

\* C17: a bulk reindex run in which nothing fails reports as indexed the number
\* of markdown files that are new or newer than their record, as skipped the
\* number of files that are unchanged, and 0 errors.
C17_ReindexCounts ==
    \A w \in Workers :
        (scan[w].state = "done" /\ scan[w].clean /\ scan[w].baddirs = 0) =>
            /\ scan[w].indexed = scan[w].new0
            /\ scan[w].skipped = Cardinality(scan[w].unchanged)
            /\ scan[w].errors = 0

\* C18: a recoverable error of the scan is counted and does not end the scan: a
\* finished run has gone through every user directory and every document, and
\* has counted an error for every directory without a tenant id.
C18_ErrorsDoNotAbort ==
    \A w \in Workers :
        scan[w].state = "done" =>
            /\ scan[w].tenants = {}
            /\ scan[w].seen = scan[w].files0
            /\ scan[w].errors >= scan[w].baddirs


-----------------------------------------------------------------------------
(* Searches of several users on the one index (app/search/api.py): the       *)
(* indexer is the singleton of the process, shared by every user             *)

\* a search that sees only the records whose path is a file of the user's vault
UserView_own(current_user, ix) ==
    SelectSeq(ix, LAMBDA rec : /\ vault[current_user].dir
                               /\ rec.path \in VaultPaths
                               /\ vault[current_user].files[rec.path].exists)

\* the records that the search of a user runs on: current_user is resolved by
\* get_current_user and not used, the searcher is opened on the whole index
UserView(current_user, ix) == ix

\* POST /search by an authenticated user
SearchAs(current_user, req) ==
    /\ req.limit >= 1 /\ req.limit <= LimitCap /\ req.offset >= 0
    /\ LET resp == search(UserView(current_user, index), req) IN
       last' = [op |-> "search_as", user |-> current_user, req |-> req,
                hits |-> resp.hits, total |-> resp.total]
    /\ UNCHANGED <<index, clock, vault, userIndex, lock, wpc, scan, dead, upserted, wlock, wop>>

\* the requests that the users issue
TenantRequests ==
    { Probe(t, MaxLimit) : t \in { <<>>, <<WordAb>>, <<Term("word", T_abc, <<>>, <<>>)>> } }

\* the users write notes through the file API and search
NextTenants ==
    \/ \E t \in Tenants, p \in Paths :
          create_file(t, p, TenantText(t), FALSE, FALSE, FALSE, TRUE)
    \/ \E u \in Tenants, req \in TenantRequests : SearchAs(u, req)

SpecTenants == Init /\ [][NextTenants]_vars

-----------------------------------------------------------------------------
\* Claims about the stored fields

\* C21: every mtime stored in the index, whichever operation wrote the record,
\* is a timezone-aware timestamp.
C21_MtimeAware == \A i \in 1..Len(index) : index[i].mtime.aware


-----------------------------------------------------------------------------
\* The tag extraction as a function of the content

\* the longest content and the characters it is made of
MaxContentLen == 5
ContentChars == {"#", "a", "A", "b", " "}

RECURSIVE SeqsUpTo(_, _)
\* the sequences over S of length at most n
SeqsUpTo(S, n) ==
    IF n = 0 THEN {<<>>}
    ELSE LET shorter == SeqsUpTo(S, n - 1)
         IN shorter \cup { Append(q, c) : q \in { r \in shorter : Len(r) = n - 1 }, c \in S }

TagContents == SeqsUpTo(ContentChars, MaxContentLen)

\* the state after construction, with the input that the handler will be given
InitWith(inputs) ==
    /\ clock = 0
    /\ last \in inputs
    /\ lock = NoWorker
    /\ wpc = [w \in Workers |-> "boot"]
    /\ scan = [w \in Workers |-> NoScan]
    /\ wlock = NoWorker
    /\ wop = [w \in Workers |-> NoWrite]
    /\ index = <<>>
    /\ dead = 0
    /\ upserted = {}
    /\ vault = [t \in Tenants |-> NoVault]
    /\ userIndex = [t \in Tenants |-> {}]

InitTags == InitWith({ [op |-> "content", content |-> c] : c \in TagContents })

\* parser.extract_tags(content)
ExtractTags ==
    /\ last.op = "content"
    /\ last' = [op |-> "extract_tags", content |-> last.content,
                tags |-> extract_tags(last.content)]
    /\ UNCHANGED <<index, clock, vault, userIndex, lock, wpc, scan, dead, upserted, wlock, wop>>

NextTags == ExtractTags

SpecTags == InitTags /\ [][NextTags]_vars

\* the index in found of the first tag that equals tag ignoring case
FirstSeen(found, tag) ==
    CHOOSE k \in 1..Len(found) :
        /\ Lower(found[k]) = Lower(tag)
        /\ \A j \in 1..(k - 1) : Lower(found[j]) # Lower(tag)

-----------------------------------------------------------------------------
\* Claims about the bulk reindex over the tenants' vaults

\* the path that both tenants write
SharedPath == "notes/a.md"

\* C23: the index key is the path inside the vault, without the tenant: when two
\* tenants hold a document at the same path and a bulk reindex has visited both
\* vaults, the index holds one record for the path, with the content of the
\* document of the vault that was visited last.
C23_SharedRecordHoldsLast ==
    LET st == scan[FirstWorker] IN
    ( /\ st.state = "done" /\ ~st.aborted /\ st.tenants = {} /\ st.lastuser \in Tenants
      /\ \A t \in Tenants : vault[t].dir /\ vault[t].files[SharedPath].exists ) =>
        /\ CountPath(index, SharedPath) = 1
        /\ \A i \in 1..Len(index) :
              index[i].path = SharedPath =>
                  index[i].content = vault[st.lastuser].files[SharedPath].content


-----------------------------------------------------------------------------
\* Claims about the search request

\* restrict_paths: []
EmptyRestrict == [some |-> TRUE, val |-> <<>>]

\* C27: a search whose restrict_paths is the empty list runs with no path filter:
\* it returns the hits and the total of the same request without restrict_paths.
C27_EmptyRestrictIsNoFilter ==
    (last.op = "search" /\ last.req.restrict_paths = EmptyRestrict) =>
        LET resp == search(index, [last.req EXCEPT !.restrict_paths = NoRestrict])
        IN last.hits = resp.hits /\ last.total = resp.total

\* a search with an empty restrict_paths has returned a hit
C27_Witness ==
    /\ last.op = "search" /\ last.req.restrict_paths = EmptyRestrict
    /\ last.hits # <<>>


-----------------------------------------------------------------------------
\* The query builder as a function of the terms

\* the longest pattern and the characters it is made of
MaxPatternLen == 4
PatternChars == {"a", "B", "\\", ".", "^", "("}

Patterns == SeqsUpTo(PatternChars, MaxPatternLen)

\* terms of which some give no clause: an unknown type, a line term without a
\* sub-term, a regex without a literal prefix, a word
OddTerms ==
    { Term("tag", <<"t">>, <<>>, <<>>), Term("line", <<>>, <<>>, <<>>),
      Term("regex", <<"a", "(">>, <<>>, <<>>), WordAb }

QueryTermLists ==
    { <<Term("regex", p, fl, <<>>)>> : p \in Patterns, fl \in { <<>>, <<"m">> } }
    \cup { <<t>> : t \in OddTerms } \cup { <<t, u>> : t, u \in OddTerms }

InitQuery ==
    InitWith({ [op |-> "pattern", pattern |-> p] : p \in Patterns }
             \cup { [op |-> "terms", terms |-> t, rejects |-> x] :
                      t \in QueryTermLists, x \in BOOLEAN })

\* extract_regex_prefix(pattern)
ExtractRegexPrefix ==
    /\ last.op = "pattern"
    /\ last' = [op |-> "extract_regex_prefix", pattern |-> last.pattern,
                prefix |-> extract_regex_prefix(last.pattern)]
    /\ UNCHANGED <<index, clock, vault, userIndex, lock, wpc, scan, dead, upserted, wlock, wop>>

\* build_whoosh_query(terms, indexer)
BuildWhooshQuery ==
    /\ last.op = "terms"
    /\ last' = [op |-> "build_whoosh_query", terms |-> last.terms, rejects |-> last.rejects,
                query |-> build_whoosh_query(last.terms, last.rejects)]
    /\ UNCHANGED <<index, clock, vault, userIndex, lock, wpc, scan, dead, upserted, wlock, wop>>

NextQuery == ExtractRegexPrefix \/ BuildWhooshQuery

SpecQuery == InitQuery /\ [][NextQuery]_vars

\* the clauses that a built query combines
QueryClauses(q) == IF q.kind = "And" THEN { q.subs[i] : i \in 1..Len(q.subs) } ELSE {q}

\* C25: extract_regex_prefix takes a character escaped by a backslash as a
\* literal of the prefix: when the pattern starts with literal characters
\* followed by an escaped character, the prefix holds the literals and then the
\* escaped character.
C25_EscapeIsLiteral ==
    last.op = "extract_regex_prefix" =>
        \A i \in 1..(Len(last.pattern) - 1) :
            ( /\ last.pattern[i] = "\\"
              /\ \A j \in 1..(i - 1) : last.pattern[j] \notin MetaChars ) =>
                /\ Len(last.prefix) >= i
                /\ SubSeq(last.prefix, 1, i - 1) = SubSeq(last.pattern, 1, i - 1)
                /\ last.prefix[i] = last.pattern[i + 1]


\* C26: for a regex term whose pattern is a line-start anchor followed by at
\* least 3 literal characters, the built query holds a trigram prefilter clause
\* on the first 3 literal characters in lower case.
C26_AnchoredPrefilter ==
    (last.op = "build_whoosh_query" /\ Len(last.terms) = 1 /\ last.terms[1].type = "regex") =>
        LET pattern == last.terms[1].value IN
        ( /\ Len(pattern) >= 4 /\ pattern[1] = "^"
          /\ \A j \in 2..4 : pattern[j] \notin MetaChars ) =>
            QTerm("tri", Lower(SubSeq(pattern, 2, 4))) \in QueryClauses(last.query)

\* does the term give no clause: an unknown type, a line term without a
\* sub-term, or a rejected regex whose literal prefix is shorter than 3
Clauseless(term, rejects) ==
    \/ term.type \notin {"word", "phrase", "regex", "line"}
    \/ term.type = "line" /\ term.sub = <<>>
    \/ /\ term.type = "regex" /\ rejects
       /\ Len(extract_regex_prefix(term.value)) < MinPrefixLen

\* C28: when no term of a non-empty term list gives a clause, build_whoosh_query
\* returns the query that matches everything, as it does for an empty list.
C28_NoClauseMatchesAll ==
    ( /\ last.op = "build_whoosh_query" /\ last.terms # <<>>
      /\ \A i \in 1..Len(last.terms) : Clauseless(last.terms[i], last.rejects) ) =>
        /\ last.query = QEvery
        /\ last.query = build_whoosh_query(<<>>, last.rejects)

\* a list of a rejected regex without a long prefix and a term of an unknown
\* type has given the query that matches everything
C28_Witness ==
    /\ last.op = "build_whoosh_query" /\ last.rejects
    /\ last.terms = <<Term("regex", <<"a", "(">>, <<>>, <<>>), Term("tag", <<"t">>, <<>>, <<>>)>>
    /\ last.query = QEvery


-----------------------------------------------------------------------------
\* Claims about what a bulk reindex run leaves behind

\* C29: a bulk reindex run removes no record: every path that the index held
\* when the run started is still in the index while it runs and after it, also
\* when no vault holds a file of that path.
C29_ReindexRemovesNothing ==
    LET st == scan[FirstWorker] IN
    st.state \in {"running", "done"} => DOMAIN st.snapshot \subseteq PathsOf(index)

\* a run is over, and the index holds a record that it held before the run and
\* whose file is in no vault
C29_Witness ==
    LET st == scan[FirstWorker] IN
    /\ st.state = "done" /\ ~st.aborted
    /\ \E p \in DOMAIN st.snapshot :
          /\ p \in PathsOf(index)
          /\ \A tp \in VaultFiles : tp[2] # p

====
